---- MODULE Spec2Model ----
(***************************************************************************)
(* Dual-proof CSV aggregation pipeline (ronantakizawa/zaik).               *)
(*                                                                         *)
(* The module models                                                       *)
(*   - the zkVM guest of methods/guest/src/main.rs (commitment check, CSV  *)
(*     parsing, column sum, journal commit),                               *)
(*   - the host pipeline of host/src/main.rs (AgentA, AgentB, main),       *)
(*   - the two receipt verifiers src/bin/verifier.rs and                   *)
(*     src/bin/snark_verifier.rs, with the SnarkProver they call,          *)
(*   - the threshold circuit of snark_circuit.rs, computed in the scalar   *)
(*     field of BN254, and the tests of the circuit and of SnarkProver,    *)
(*   - the receipt producer src/bin/host.rs,                               *)
(*   - calculate_column_sum of src/bin/ai_demo_simple.rs,                  *)
(*   - the simulated invariant proof of host/src/snark_invariant.rs,       *)
(*   - the command loop of src/bin/ai_interactive.rs.                      *)
(*                                                                         *)
(* Strings are sequences of one-character strings.  u64 values are kept at *)
(* their real width as four 16-bit limbs, least significant first.         *)
(* SHA-256 is an ideal (collision-free) digest of the bytes it is given.   *)
(***************************************************************************)
EXTENDS Integers, Sequences, FiniteSets, TLC

-----------------------------------------------------------------------------
(* Characters and strings                                                  *)

LF == "\n"
CR == "\r"

Digits == {"0", "1", "2", "3", "4", "5", "6", "7", "8", "9"}

DigitVal(c) ==
    CASE c = "0" -> 0 [] c = "1" -> 1 [] c = "2" -> 2 [] c = "3" -> 3
      [] c = "4" -> 4 [] c = "5" -> 5 [] c = "6" -> 6 [] c = "7" -> 7
      [] c = "8" -> 8 [] c = "9" -> 9

DigitChar(d) == <<"0", "1", "2", "3", "4", "5", "6", "7", "8", "9">>[d + 1]

\* char::is_whitespace on the characters the model uses
IsWhitespace(c) == c \in {" ", "\t", LF, CR}

RECURSIVE Flatten(_)
Flatten(ss) == IF ss = <<>> THEN <<>> ELSE Head(ss) \o Flatten(Tail(ss))

-----------------------------------------------------------------------------
(* u64 arithmetic on four 16-bit limbs                                     *)

LimbBase == 2 ^ 16

U64Zero == <<0, 0, 0, 0>>

\* the u64 of a small natural number (below 2^31)
U64(n) == <<n % LimbBase, (n \div LimbBase) % LimbBase, 0, 0>>

\* u64::MAX
U64Max == <<LimbBase - 1, LimbBase - 1, LimbBase - 1, LimbBase - 1>>

\* a + b with the carry out of bit 63
U64AddCarry(a, b) ==
    LET s1 == a[1] + b[1]
        s2 == a[2] + b[2] + (s1 \div LimbBase)
        s3 == a[3] + b[3] + (s2 \div LimbBase)
        s4 == a[4] + b[4] + (s3 \div LimbBase)
    IN  [val   |-> <<s1 % LimbBase, s2 % LimbBase, s3 % LimbBase, s4 % LimbBase>>,
         carry |-> s4 \div LimbBase]

\* a * 10 + d with the carry out of bit 63 (one step of the decimal parse)
U64MulTenAdd(a, d) ==
    LET s1 == a[1] * 10 + d
        s2 == a[2] * 10 + (s1 \div LimbBase)
        s3 == a[3] * 10 + (s2 \div LimbBase)
        s4 == a[4] * 10 + (s3 \div LimbBase)
    IN  [val   |-> <<s1 % LimbBase, s2 % LimbBase, s3 % LimbBase, s4 % LimbBase>>,
         carry |-> s4 \div LimbBase]

\* a divided by ten: quotient and remainder (one step of to_string)
U64DivTen(a) ==
    LET c4 == a[4]
        c3 == (c4 % 10) * LimbBase + a[3]
        c2 == (c3 % 10) * LimbBase + a[2]
        c1 == (c2 % 10) * LimbBase + a[1]
    IN  [quot |-> <<c1 \div 10, c2 \div 10, c3 \div 10, c4 \div 10>>,
         rem  |-> c1 % 10]

\* unsigned a < b
U64Less(a, b) ==
    \/ a[4] < b[4]
    \/ a[4] = b[4] /\ a[3] < b[3]
    \/ a[4] = b[4] /\ a[3] = b[3] /\ a[2] < b[2]
    \/ a[4] = b[4] /\ a[3] = b[3] /\ a[2] = b[2] /\ a[1] < b[1]

\* unsigned a <= b
U64LessEq(a, b) == a = b \/ U64Less(a, b)

\* mutant: the addition saturates at u64::MAX
WrappingAdd_Saturating(a, b) ==
    IF U64AddCarry(a, b).carry > 0 THEN U64Max ELSE U64AddCarry(a, b).val

\* u64 `+=` of the guest image (release profile: wraps modulo 2^64)
WrappingAdd(a, b) == U64AddCarry(a, b).val

\* u64::to_string
RECURSIVE U64ToString(_)
U64ToString(a) ==
    LET qr == U64DivTen(a)
    IN  IF qr.quot = U64Zero
        THEN <<DigitChar(qr.rem)>>
        ELSE Append(U64ToString(qr.quot), DigitChar(qr.rem))

-----------------------------------------------------------------------------
(* The scalar field Fr of BN254 on sixteen 16-bit limbs                    *)

\* the modulus of ark_bn254::Fr, least significant limb first
FrModulus ==
    <<1, 61440, 62867, 17377, 28817, 31161, 59464, 10291,
      22621, 33153, 17846, 47184, 41001, 57649, 20082, 12388>>

\* (modulus - 1) / 2
FrModulusMinusOneDivTwo ==
    <<0, 63488, 64201, 41456, 47176, 15580, 62500, 37913,
      44078, 16576, 8923, 56360, 53268, 28824, 10041, 6194>>

FrZero == <<0, 0, 0, 0, 0, 0, 0, 0, 0, 0, 0, 0, 0, 0, 0, 0>>
FrOne == <<1, 0, 0, 0, 0, 0, 0, 0, 0, 0, 0, 0, 0, 0, 0, 0>>

\* Fr::from(u64)
FrFrom(a) == a \o <<0, 0, 0, 0, 0, 0, 0, 0, 0, 0, 0, 0>>

\* a + b + c on limbs (the sum fits the limbs)
RECURSIVE LimbsAdd(_, _, _)
LimbsAdd(a, b, c) ==
    IF a = <<>> THEN <<>>
    ELSE LET x == Head(a) + Head(b) + c
         IN  <<x % LimbBase>> \o LimbsAdd(Tail(a), Tail(b), x \div LimbBase)

\* a - b - c on limbs, for a >= b + c
RECURSIVE LimbsSub(_, _, _)
LimbsSub(a, b, c) ==
    IF a = <<>> THEN <<>>
    ELSE LET x == Head(a) - Head(b) - c
         IN  <<(x + LimbBase) % LimbBase>>
             \o LimbsSub(Tail(a), Tail(b), IF x < 0 THEN 1 ELSE 0)

\* a < b on limbs
RECURSIVE LimbsLess(_, _)
LimbsLess(a, b) ==
    IF a = <<>> THEN FALSE
    ELSE LET n == Len(a)
         IN  \/ a[n] < b[n]
             \/ a[n] = b[n] /\ LimbsLess(SubSeq(a, 1, n - 1), SubSeq(b, 1, n - 1))

\* field addition, subtraction and doubling
FrAdd(a, b) ==
    LET x == LimbsAdd(a, b, 0)
    IN  IF LimbsLess(x, FrModulus) THEN x ELSE LimbsSub(x, FrModulus, 0)

FrSub(a, b) ==
    IF LimbsLess(a, b)
    THEN LimbsSub(LimbsAdd(a, FrModulus, 0), b, 0)
    ELSE LimbsSub(a, b, 0)

FrDouble(a) == FrAdd(a, a)

\* to_bits_le()?.first(): the lowest bit of the canonical representative
FrLowestBit(a) == a[1] % 2 = 1

-----------------------------------------------------------------------------
(* str::parse::<u64>, str::lines, str::split(',').next(), str::trim        *)

ParseErr == [ok |-> FALSE, val |-> U64Zero]

RECURSIVE ParseDigits(_, _)
ParseDigits(s, acc) ==
    IF s = <<>> THEN [ok |-> TRUE, val |-> acc]
    ELSE IF Head(s) \notin Digits THEN ParseErr
    ELSE LET step == U64MulTenAdd(acc, DigitVal(Head(s)))
         IN  IF step.carry > 0 THEN ParseErr
             ELSE ParseDigits(Tail(s), step.val)

\* "…".parse::<u64>(): empty is an error, a lone sign is an error, a leading
\* '+' is accepted, '-' and every other non-digit is an invalid digit, a value
\* above u64::MAX is an error.  Nothing is trimmed.
ParseU64(s) ==
    IF s = <<>> THEN ParseErr
    ELSE IF Len(s) = 1 /\ s[1] \in {"+", "-"} THEN ParseErr
    ELSE IF s[1] = "+" THEN ParseDigits(Tail(s), U64Zero)
    ELSE ParseDigits(s, U64Zero)

\* the prefix of s before the first occurrence of c (all of s when absent)
RECURSIVE UpTo(_, _)
UpTo(s, c) ==
    IF s = <<>> \/ Head(s) = c THEN <<>> ELSE <<Head(s)>> \o UpTo(Tail(s), c)

\* line.split(',').next(): always Some, the text before the first comma
FirstField(line) == UpTo(line, ",")

StripSuffix(s, c) ==
    IF s # <<>> /\ s[Len(s)] = c THEN SubSeq(s, 1, Len(s) - 1) ELSE s

\* str::lines(): split after every "\n"; no empty line after a final "\n";
\* each line loses its "\n" and then a "\r" that stood before that "\n"
RECURSIVE Lines(_)
Lines(s) ==
    IF s = <<>> THEN <<>>
    ELSE LET first == UpTo(s, LF)
         IN  IF Len(first) = Len(s)
             THEN <<s>>
             ELSE <<StripSuffix(first, CR)>>
                  \o Lines(SubSeq(s, Len(first) + 2, Len(s)))

RECURSIVE TrimStart(_)
TrimStart(s) ==
    IF s # <<>> /\ IsWhitespace(Head(s)) THEN TrimStart(Tail(s)) ELSE s

RECURSIVE TrimEnd(_)
TrimEnd(s) ==
    IF s # <<>> /\ IsWhitespace(s[Len(s)])
    THEN TrimEnd(SubSeq(s, 1, Len(s) - 1)) ELSE s

\* str::trim
Trim(s) == TrimEnd(TrimStart(s))

\* SHA-256 as an ideal digest: equal digests only for equal byte strings
Sha256(bytes) == <<"sha256", bytes>>


-----------------------------------------------------------------------------
(* Bounds and input domains                                                *)

\* a dataset is the concatenation of at most MaxRows of the row texts below
MaxRows == 4

\* the decimal text of u64::MAX
U64MaxText ==
    <<"1", "8", "4", "4", "6", "7", "4", "4", "0", "7",
      "3", "7", "0", "9", "5", "5", "1", "6", "1", "5">>

\* row texts: a text row, a numeric row, a numeric row without line ending,
\* a row with a space before the number, a negative row, an empty line, a
\* row holding u64::MAX
RowTexts ==
    { <<"a", "b", "c", ",", "x", LF>>,
      <<"5", "0", "0", ",", "x", LF>>,
      <<"4", "9", "9">>,
      <<" ", "1", "0", "0", LF>>,
      <<"-", "5", CR, LF>>,
      <<LF>>,
      U64MaxText \o <<LF>> }

Datasets == { Flatten(ts) : ts \in UNION { [1..n -> RowTexts] : n \in 0..MaxRows } }

\* a commitment made for an earlier version of the file
StaleData == <<"a", "b", "c", ",", "x", LF, "5", "0", "0", ",", "x", LF>>

\* image identifiers
GUEST_CODE_FOR_ZK_PROOF_ID == "GUEST_CODE_FOR_ZK_PROOF_ID"
CSV_PROCESSOR_ID == "CSV_PROCESSOR_ID"
OtherImageId == "other image"

\* src/src/lib.rs: pub const THRESHOLD: u64 = 1000
THRESHOLD == 1000

\* host/src/main.rs main: let sum_threshold = 1000u64
SumThreshold == 1000

\* src/bin/host.rs: let csv_data = "column_a,column_b,column_c\n100,..."
SampleCsv ==
    <<"c", "o", "l", "u", "m", "n", "_", "a", ",", "c", "o", "l", "u", "m",
      "n", "_", "b", ",", "c", "o", "l", "u", "m", "n", "_", "c", LF, "1",
      "0", "0", ",", "h", "e", "l", "l", "o", ",", "w", "o", "r", "l", "d",
      LF, "2", "0", "0", ",", "f", "o", "o", ",", "b", "a", "r", LF, "1",
      "5", "0", ",", "t", "e", "s", "t", ",", "d", "a", "t", "a", LF, "5",
      "0", ",", "m", "o", "r", "e", ",", "i", "n", "f", "o">>

\* the lines of the CSV texts given to calculate_column_sum: a header, a
\* numeric row, a numeric row with spaces around the number, two negative
\* rows (one with spaces around the number), a text row
DemoRowTexts ==
    { <<"a", ",", "b">>,
      <<"5", "0", "0", ",", "x">>,
      <<" ", "1", "0", "0", " ", ",", "y">>,
      <<"-", "5", ",", "z">>,
      <<" ", "-", "7", " ">>,
      <<"x">> }

\* a generated CSV text has at most MaxDemoRows lines
MaxDemoRows == 3

\* every line ends with a line feed; the values are too small to overflow
DemoCsvs ==
    { Flatten([i \in DOMAIN ts |-> ts[i] \o <<LF>>]) :
        ts \in UNION { [1..n -> DemoRowTexts] : n \in 0..MaxDemoRows } }

\* thresholds and sums of the simulated invariant proof
InvariantValues ==
    {U64Zero, U64(SumThreshold - 1), U64(SumThreshold), U64(SumThreshold + 1), U64Max}

\* two values of csv_hash: [u8; 32]
CsvHashes == {[i \in 1..32 |-> 0], [i \in 1..32 |-> 255]}

InvariantCircuits ==
    [threshold : InvariantValues, actual_sum : InvariantValues, csv_hash : CsvHashes]

\* the pub fields of a BusinessInvariantProof other than proof_hash
ProofFields == {"threshold", "actual_sum", "csv_hash", "is_valid"}

\* the command words of ai_interactive
QuitText == <<"q", "u", "i", "t">>
GenText == <<"g", "e", "n">>
AnalyzeText == <<"a", "n", "a", "l", "y", "z", "e">>
PlanText == <<"p", "l", "a", "n">>

\* what one read_line of ai_interactive can return: an empty line, quit, quit
\* with white space around it, quit followed by a word, gen without and with
\* an argument, analyze and plan with an argument, an unknown command, and
\* the zero-length read of end of input
InteractiveLines ==
    { <<LF>>,
      QuitText \o <<LF>>,
      <<" ">> \o QuitText \o <<CR, LF>>,
      QuitText \o <<" ", "n", "o", "w", LF>>,
      GenText \o <<LF>>,
      GenText \o <<" ", "x", LF>>,
      AnalyzeText \o <<" ", "y", LF>>,
      PlanText \o <<" ", "z", LF>>,
      <<"f", "o", "o", LF>>,
      <<>> }

\* standard input delivers at most MaxScriptLines reads before it is exhausted
MaxScriptLines == 2

StdinScripts == UNION { [1..n -> InteractiveLines] : n \in 0..MaxScriptLines }

\* the thresholds a caller passes to AgentB::verify_and_check_invariant:
\* the one of main, and a larger one
CallerThresholds == {U64(SumThreshold), U64(2 * SumThreshold)}

\* sums and thresholds of the SnarkProver test cases
TestValues == {U64Zero, U64(1), U64(THRESHOLD - 1), U64(THRESHOLD), U64(THRESHOLD + 1), U64Max}

SnarkTestCases ==
    [sum : TestValues, threshold : TestValues, is_under_threshold : BOOLEAN]

\* values that stand for "nothing there"
NoArgs == [none |-> "args"]
NoInput == [none |-> "input"]
NoJournal == [none |-> "journal"]
NoReceipt == [none |-> "receipt"]
NoOutput == [none |-> "output"]
NoProof == [none |-> "proof"]
NoCircuit == [none |-> "circuit"]
Malformed == [malformed |-> "journal"]
Missing == [file |-> "missing"]
Garbage == [file |-> "not a receipt"]
ProvingError == [failed |-> "prove"]
ProverError == [failed |-> "prover"]

\* journal sums around the threshold, as u64 (AgentResult) and as the decimal
\* strings of CsvProcessingOutput (one of them not a number)
JournalSums == {0, 999, 1000, 1001}
JournalSumStrings ==
    { <<"0">>, <<"9", "9", "9">>, <<"1", "0", "0", "0">>, <<"1", "0", "0", "1">>,
      <<"a", "b", "c">> }

\* journals of the guest of methods/guest (struct AgentResult)
AgentResults ==
    [csv_hash : {Sha256(StaleData)},
     column_a_sum : {U64(n) : n \in JournalSums},
     column_a_hash : {Sha256(<<>>)},
     entry_count : {0}]

\* journals of the CSV_PROCESSOR guest (struct CsvProcessingOutput)
CsvProcessingOutputs ==
    [csv_hash : {Sha256(StaleData)},
     column_a_sum : JournalSumStrings,
     is_under_threshold : BOOLEAN]

\* a receipt: the image it was proved for, whether its seal is a valid proof
\* of (image_id, journal), and the journal
Receipts(ids, journals) ==
    [image_id : ids, seal_ok : BOOLEAN, journal : journals]

AgentBReceipts ==
    Receipts({GUEST_CODE_FOR_ZK_PROOF_ID, OtherImageId}, AgentResults \cup {Malformed})

\* what fs::read("receipt.bin") can find
ReceiptFiles ==
    {Missing, Garbage}
    \cup Receipts({CSV_PROCESSOR_ID, OtherImageId}, CsvProcessingOutputs \cup {Malformed})

-----------------------------------------------------------------------------
(* State                                                                   *)

VARIABLES
    prog,       \* which program runs: "guest" (the guest under the prover, any
                \* input), "host" (host/src/main.rs), "agent_b" (AgentB on any
                \* receipt, then main's check), "verifier", "snark_verifier",
                \* "producer" (src/bin/host.rs), "snark_test" (the tests of
                \* snark_circuit.rs and snark_prover.rs on any case), "demo"
                \* (ai_demo_simple's processing of a generated CSV),
                \* "invariant_test" (generate_proof and verify of
                \* snark_invariant.rs), "interactive" (ai_interactive's loop)
    pc,         \* where the program is
    csv_file,   \* host: test_data.csv, [readable, data]
    input,      \* guest: CsvProcessingInput read from the zkVM input channel
    gpc,        \* guest: "idle", "start", "loop", "committed", "panicked"
    lines,      \* guest: the lines of input.csv_data
    idx,        \* guest: number of lines the loop has consumed
    column_a_sum, column_a_values, entry_count,  \* guest locals
    journal,    \* guest: what env::commit wrote
    receipt_file, \* verifiers: what receipt.bin holds
    receipt,    \* the receipt in hand
    verification_passed,        \* AgentB local
    output,     \* the decoded journal
    business_invariant_passed,  \* AgentB local
    sum_threshold, \* AgentB: the threshold its caller passes
    sum_value,  \* verifiers: output.column_a_sum parsed
    snark_proof, snark_verified, \* snark_verifier locals
    snark_args, \* SnarkProver tests: the sum, threshold and flag of the case
    cs_satisfied, \* SnarkProver tests: what cs.is_satisfied() returned
    decisions,  \* the decisions printed so far, by the function that prints them
    error,      \* the call whose Err ended the run, or "none"
    exit_code,  \* the process exit code, -1 while it runs
    csv,        \* ai_demo_simple: the CSV text the generator agent returned
    demo_sum,   \* ai_demo_simple: what calculate_column_sum returned
    circuit,    \* snark_invariant: the BusinessInvariantCircuit
    invariant_proof, \* snark_invariant: the BusinessInvariantProof in hand
    tampered,   \* snark_invariant: the field of the proof changed after
                \* generate_proof, or "none"
    proof_verified, \* snark_invariant: what BusinessInvariantProof::verify returned
    stdin,      \* ai_interactive: what read_line will still return, in order
    input_buf,  \* ai_interactive: the String read_line filled
    last_outcome \* ai_interactive: how the last iteration of the loop ended

guestVars == <<input, gpc, lines, idx, column_a_sum, column_a_values, entry_count, journal>>
agentBVars == <<verification_passed, business_invariant_passed, sum_threshold>>
snarkVars == <<sum_value, snark_proof, snark_verified, snark_args, cs_satisfied>>
outVars == <<decisions, error, exit_code>>
demoVars == <<csv, demo_sum>>
invariantVars == <<circuit, invariant_proof, tampered, proof_verified>>
interactiveVars == <<stdin, input_buf, last_outcome>>
harnessVars == <<demoVars, invariantVars, interactiveVars>>

vars == <<prog, pc, csv_file, receipt_file, receipt, output,
          guestVars, agentBVars, snarkVars, outVars, harnessVars>>

-----------------------------------------------------------------------------
(* Initial states                                                          *)

CsvFiles ==
    {[readable |-> TRUE, data |-> d] : d \in Datasets}
    \cup {[readable |-> FALSE, data |-> <<>>]}

NoFile == [readable |-> FALSE, data |-> <<>>]

\* inputs of a guest run: any dataset with its own digest or a stale one
GuestInputs ==
    {[csv_hash |-> Sha256(d), csv_data |-> d] : d \in Datasets}
    \cup {[csv_hash |-> Sha256(StaleData), csv_data |-> d] : d \in Datasets}

InitLocals ==
    /\ lines = <<>> /\ idx = 0
    /\ column_a_sum = U64Zero /\ column_a_values = <<>> /\ entry_count = 0
    /\ journal = NoJournal
    /\ verification_passed = FALSE /\ business_invariant_passed = FALSE
    /\ output = NoOutput
    /\ sum_value = U64Zero /\ snark_proof = NoProof /\ snark_verified = FALSE
    /\ cs_satisfied = FALSE
    /\ decisions = <<>> /\ error = "none" /\ exit_code = -1

\* the guest image run by the prover on an input of the input channel
InitGuest ==
    /\ prog = "guest" /\ pc = "prove" /\ gpc = "start"
    /\ input \in GuestInputs
    /\ csv_file = NoFile /\ receipt_file = Missing /\ receipt = NoReceipt
    /\ sum_threshold = U64(SumThreshold) /\ snark_args = NoArgs

\* host/src/main.rs from the top of main
InitHost ==
    /\ prog = "host" /\ pc = "read_csv" /\ gpc = "idle"
    /\ csv_file \in CsvFiles
    /\ input = NoInput /\ receipt_file = Missing /\ receipt = NoReceipt
    /\ sum_threshold = U64(SumThreshold) /\ snark_args = NoArgs

\* AgentB::verify_and_check_invariant called with a receipt
InitAgentB ==
    /\ prog = "agent_b" /\ pc = "agent_b_verify" /\ gpc = "idle"
    /\ receipt \in AgentBReceipts
    /\ sum_threshold \in CallerThresholds
    /\ input = NoInput /\ csv_file = NoFile /\ receipt_file = Missing
    /\ snark_args = NoArgs

\* src/bin/verifier.rs and src/bin/snark_verifier.rs from the top of main
InitVerifier ==
    /\ prog \in {"verifier", "snark_verifier"} /\ pc = "load" /\ gpc = "idle"
    /\ receipt_file \in ReceiptFiles
    /\ input = NoInput /\ csv_file = NoFile /\ receipt = NoReceipt
    /\ sum_threshold = U64(SumThreshold) /\ snark_args = NoArgs

\* src/bin/host.rs from the top of main; receipt.bin does not exist yet
InitProducer ==
    /\ prog = "producer" /\ pc = "build_input" /\ gpc = "idle"
    /\ input = NoInput /\ csv_file = NoFile /\ receipt_file = Missing
    /\ receipt = NoReceipt
    /\ sum_threshold = U64(SumThreshold) /\ snark_args = NoArgs

\* a test case of snark_circuit.rs / snark_prover.rs
InitSnarkTest ==
    /\ prog = "snark_test" /\ pc = "generate_constraints" /\ gpc = "idle"
    /\ snark_args \in SnarkTestCases
    /\ input = NoInput /\ csv_file = NoFile /\ receipt_file = Missing
    /\ receipt = NoReceipt
    /\ sum_threshold = U64(SumThreshold)

\* nothing of the pipeline is in play
InitNoPipeline ==
    /\ gpc = "idle"
    /\ input = NoInput /\ csv_file = NoFile /\ receipt_file = Missing
    /\ receipt = NoReceipt
    /\ sum_threshold = U64(SumThreshold) /\ snark_args = NoArgs

InitNoDemo == csv = <<>> /\ demo_sum = U64Zero

InitNoInvariant ==
    circuit = NoCircuit /\ invariant_proof = NoProof /\ tampered = "none" /\ proof_verified = FALSE

InitNoInteractive == stdin = <<>> /\ input_buf = <<>> /\ last_outcome = "none"

\* BusinessInvariantCircuit::new(threshold, actual_sum, csv_hash)
InitInvariantTest ==
    /\ prog = "invariant_test" /\ pc = "generate_proof"
    /\ circuit \in InvariantCircuits
    /\ invariant_proof = NoProof /\ tampered = "none" /\ proof_verified = FALSE
    /\ InitNoPipeline /\ InitNoDemo /\ InitNoInteractive

\* ai_interactive.rs at the top of the loop
InitInteractive ==
    /\ prog = "interactive" /\ pc = "prompt"
    /\ stdin \in StdinScripts
    /\ input_buf = <<>> /\ last_outcome = "none"
    /\ InitNoPipeline /\ InitNoDemo /\ InitNoInvariant

\* ai_demo_simple.rs at the call of calculate_column_sum, with the CSV text
\* the generator agent returned
InitDemo ==
    /\ prog = "demo" /\ pc = "calculate_column_sum"
    /\ csv \in DemoCsvs /\ demo_sum = U64Zero
    /\ InitNoPipeline /\ InitNoInvariant /\ InitNoInteractive

Init ==
    /\ InitLocals
    /\ \/ /\ \/ InitGuest
             \/ InitHost
             \/ InitAgentB
             \/ InitVerifier
             \/ InitProducer
             \/ InitSnarkTest
          /\ InitNoDemo /\ InitNoInvariant /\ InitNoInteractive
       \/ InitDemo
       \/ InitInvariantTest
       \/ InitInteractive

\* main returns Err(call's error): the process ends with exit code 1
Fail(call) ==
    /\ error' = call /\ exit_code' = 1 /\ pc' = "exit"
    /\ UNCHANGED decisions

-----------------------------------------------------------------------------
(* The guest: methods/guest/src/main.rs                                    *)

\* mutant: the digest check is left out
HashMatches_Unchecked(inp) == TRUE

\* assert_eq!(computed_hash.as_slice(), &input.csv_hash)
HashMatches(inp) == Sha256(inp.csv_data) = inp.csv_hash

\* mutant: line 0 is treated as a data line
IsHeader_Never(i) == FALSE

\* if i == 0 { continue }
IsHeader(i) == i = 0

\* mutant: the whole line is parsed, not its first field
ParseFirstField_WholeLine(line) == ParseU64(line)

\* line.split(',').next() then first_field.parse::<u64>()
ParseFirstField(line) == ParseU64(FirstField(line))

\* column_a_values.join(",")
RECURSIVE Join(_)
Join(values) ==
    IF values = <<>> THEN <<>>
    ELSE IF Len(values) = 1 THEN values[1]
    ELSE values[1] \o <<",">> \o Join(Tail(values))

\* the aggregation of the CSV_PROCESSOR guest: the wrapping sum of the data
\* lines (all but line 0) whose trimmed first field is a u64
RECURSIVE SumOfColumnAFrom(_, _)
SumOfColumnAFrom(ls, k) ==
    IF k > Len(ls) THEN U64Zero
    ELSE LET parsed == ParseU64(Trim(FirstField(ls[k])))
             rest == SumOfColumnAFrom(ls, k + 1)
         IN  IF parsed.ok THEN WrappingAdd(parsed.val, rest) ELSE rest

SumOfColumnA(ls) == SumOfColumnAFrom(ls, 2)

\* env::read, the digest check and the declaration of the loop's locals;
\* a mismatch panics before anything is parsed
GuestCheckHash ==
    /\ prog \in {"guest", "host"} /\ pc = "prove" /\ gpc = "start"
    /\ IF HashMatches(input)
       THEN /\ gpc' = "loop"
            /\ lines' = Lines(input.csv_data)
       ELSE /\ gpc' = "panicked"
            /\ UNCHANGED lines
    /\ UNCHANGED <<prog, harnessVars, pc, csv_file, receipt_file, receipt, output, input, idx,
                   column_a_sum, column_a_values, entry_count, journal,
                   agentBVars, snarkVars, outVars>>

\* one iteration of `for (i, line) in input.csv_data.lines().enumerate()`
GuestNextLine ==
    /\ pc = "prove" /\ gpc = "loop" /\ idx < Len(lines)
    /\ LET i == idx
           parsed == ParseFirstField(lines[idx + 1])
       IN  IF ~IsHeader(i) /\ parsed.ok
           THEN /\ column_a_sum' = WrappingAdd(column_a_sum, parsed.val)
                /\ column_a_values' = Append(column_a_values, U64ToString(parsed.val))
                /\ entry_count' = entry_count + 1
           ELSE UNCHANGED <<column_a_sum, column_a_values, entry_count>>
    /\ idx' = idx + 1
    /\ UNCHANGED <<prog, harnessVars, pc, csv_file, receipt_file, receipt, output, input, gpc,
                   lines, journal, agentBVars, snarkVars, outVars>>

\* mutant: the journal carries the digest of other bytes
CommittedHash_Stale(inp) == Sha256(StaleData)

\* AgentResult { csv_hash: input.csv_hash, .. }
CommittedHash(inp) == inp.csv_hash

\* the column hash, the AgentResult and env::commit
GuestCommit ==
    /\ pc = "prove" /\ gpc = "loop" /\ idx = Len(lines)
    /\ journal' = [csv_hash |-> CommittedHash(input),
                   column_a_sum |-> column_a_sum,
                   column_a_hash |-> Sha256(Join(column_a_values)),
                   entry_count |-> entry_count]
    /\ gpc' = "committed"
    /\ UNCHANGED <<prog, harnessVars, pc, csv_file, receipt_file, receipt, output, input, lines,
                   idx, column_a_sum, column_a_values, entry_count,
                   agentBVars, snarkVars, outVars>>

-----------------------------------------------------------------------------
(* The host: host/src/main.rs                                              *)

\* AgentA::process_csv up to the executor environment: read the file, hash
\* its bytes, write (csv_hash, csv_data) to the guest's input
AgentAReadCsv ==
    /\ prog = "host" /\ pc = "read_csv"
    /\ IF csv_file.readable
       THEN /\ input' = [csv_hash |-> Sha256(csv_file.data), csv_data |-> csv_file.data]
            /\ gpc' = "start"
            /\ pc' = "prove"
            /\ UNCHANGED outVars
       ELSE /\ Fail("read_csv")
            /\ UNCHANGED <<input, gpc>>
    /\ UNCHANGED <<prog, harnessVars, csv_file, receipt_file, receipt, output, lines, idx,
                   column_a_sum, column_a_values, entry_count, journal,
                   agentBVars, snarkVars>>

\* mutant: a failed proving call hands back what it has, a receipt without
\* a valid seal
ProveResult_Partial(image_id, guest_end, committed, prover_ok) ==
    [image_id |-> image_id,
     seal_ok |-> guest_end = "committed" /\ prover_ok,
     journal |-> IF guest_end = "committed" THEN committed ELSE Malformed]

\* what prover.prove(env, ELF) returns: an error when the guest panicked or
\* the prover failed, else the receipt of the committed journal
ProveResult(image_id, guest_end, committed, prover_ok) ==
    IF guest_end = "committed" /\ prover_ok
    THEN [image_id |-> image_id, seal_ok |-> TRUE, journal |-> committed]
    ELSE ProverError

\* prover.prove(env, GUEST_CODE_FOR_ZK_PROOF_ELF)? in AgentA::process_csv
ProverReturn ==
    /\ pc = "prove" /\ gpc \in {"committed", "panicked"}
    /\ \E prover_ok \in BOOLEAN :
         LET result == ProveResult(GUEST_CODE_FOR_ZK_PROOF_ID, gpc, journal, prover_ok)
         IN  IF result # ProverError
             THEN /\ receipt' = result
                  /\ IF prog = "host"
                     THEN pc' = "agent_b_verify" /\ UNCHANGED exit_code
                     ELSE pc' = "exit" /\ exit_code' = 0
                  /\ UNCHANGED <<decisions, error>>
             ELSE /\ Fail("prover_prove")
                  /\ UNCHANGED receipt
    /\ UNCHANGED <<prog, harnessVars, csv_file, receipt_file, output, guestVars, agentBVars, snarkVars>>

\* mutant: the seal is checked but not the image it was made for
ReceiptVerify_AnyImage(r, image_id) == r.seal_ok

\* receipt.verify(image_id)
ReceiptVerify(r, image_id) == r.seal_ok /\ r.image_id = image_id

\* receipt.journal.decode()
JournalDecodes(r) == r.journal # Malformed

\* let verification_passed = receipt.verify(GUEST_CODE_FOR_ZK_PROOF_ID).is_ok()
AgentBVerify ==
    /\ prog \in {"host", "agent_b"} /\ pc = "agent_b_verify"
    /\ verification_passed' = ReceiptVerify(receipt, GUEST_CODE_FOR_ZK_PROOF_ID)
    /\ pc' = "agent_b_decode"
    /\ UNCHANGED <<prog, harnessVars, csv_file, receipt_file, receipt, output, guestVars,
                   business_invariant_passed, sum_threshold, snarkVars, outVars>>

\* let result: AgentResult = receipt.journal.decode()?
AgentBDecode ==
    /\ prog \in {"host", "agent_b"} /\ pc = "agent_b_decode"
    /\ IF JournalDecodes(receipt)
       THEN /\ output' = receipt.journal
            /\ pc' = "agent_b_invariant"
            /\ UNCHANGED outVars
       ELSE /\ Fail("journal_decode")
            /\ UNCHANGED output
    /\ UNCHANGED <<prog, harnessVars, csv_file, receipt_file, receipt, guestVars, agentBVars, snarkVars>>

\* result.column_a_sum <= sum_threshold
BusinessInvariant(sum, threshold) == U64LessEq(sum, threshold)

\* let business_invariant_passed = ...; Ok(VerificationResult { .. })
AgentBInvariant ==
    /\ prog \in {"host", "agent_b"} /\ pc = "agent_b_invariant"
    /\ business_invariant_passed' = BusinessInvariant(output.column_a_sum, sum_threshold)
    /\ pc' = "main_check"
    /\ UNCHANGED <<prog, harnessVars, csv_file, receipt_file, receipt, output, guestVars,
                   verification_passed, sum_threshold, snarkVars, outVars>>

\* main: all_checks_passed, SUCCESS or FAILURE with std::process::exit(1)
HostMainCheck ==
    /\ prog \in {"host", "agent_b"} /\ pc = "main_check"
    /\ IF verification_passed /\ business_invariant_passed
       THEN decisions' = Append(decisions, "SUCCESS") /\ exit_code' = 0
       ELSE decisions' = Append(decisions, "FAILURE") /\ exit_code' = 1
    /\ pc' = "exit"
    /\ UNCHANGED <<prog, harnessVars, csv_file, receipt_file, receipt, output, guestVars,
                   agentBVars, snarkVars, error>>

-----------------------------------------------------------------------------
(* SnarkProver: src/src/snark_prover.rs over src/src/snark_circuit.rs       *)

\* FpVar::enforce_smaller_or_equal_than_mod_minus_one_div_two
InLowerHalf(a) == ~LimbsLess(FrModulusMinusOneDivTwo, a)

\* FpVar::is_smaller_than_unchecked: the lowest bit of 2 * (a - b)
IsSmallerThanUnchecked(a, b) == FrLowestBit(FrDouble(FrSub(a, b)))

\* mutant: the comparison also holds for equal operands (is_cmp with
\* should_also_check_equality)
IsCmpLess_OrEqual(a, b) == IsSmallerThanUnchecked(a, FrAdd(b, FrOne))

\* sum.is_cmp(&threshold, Ordering::Less, false): the value of the Boolean
IsCmpLess(a, b) == IsSmallerThanUnchecked(a, b)

\* ThresholdCheckCircuit::generate_constraints, then cs.is_satisfied(): the
\* range constraints of is_cmp on both operands, and
\* is_under_threshold.enforce_equal(&sum_lt_threshold)
CircuitSatisfied(sum, threshold, is_under_threshold) ==
    /\ InLowerHalf(FrFrom(sum))
    /\ InLowerHalf(FrFrom(threshold))
    /\ is_under_threshold = IsCmpLess(FrFrom(sum), FrFrom(threshold))

\* the instance variables of the circuit, in allocation order: the threshold
\* (FpVar::new_input) and the flag (Boolean::new_input)
InstanceAssignment(threshold, is_under_threshold) ==
    <<FrFrom(threshold), IF is_under_threshold THEN FrOne ELSE FrZero>>

\* a Groth16 proof: the public inputs it was created for, and whether it was
\* created from a satisfying assignment
Proof(threshold, is_under_threshold, sound) ==
    [public_inputs |-> InstanceAssignment(threshold, is_under_threshold),
     sound |-> sound]

\* SnarkProver::prove.  A satisfying assignment gives a sound proof.  For an
\* unsatisfying one Groth16 either fails (an Err, or the prover's debug
\* assertion) or, in a build without that assertion, returns a proof that is
\* not sound.
SnarkProve(sum, threshold, is_under_threshold) ==
    IF CircuitSatisfied(sum, threshold, is_under_threshold)
    THEN {Proof(threshold, is_under_threshold, TRUE)}
    ELSE {ProvingError, Proof(threshold, is_under_threshold, FALSE)}

\* mutant: the flag is always encoded as one
VerifyPublicInputs_FlagAlwaysOne(threshold, is_under_threshold) ==
    <<FrFrom(threshold), FrFrom(U64(1))>>

\* SnarkProver::verify: let public_inputs = vec![Fr::from(threshold),
\* if is_under_threshold { Fr::from(1u64) } else { Fr::from(0u64) }]
VerifyPublicInputs(threshold, is_under_threshold) ==
    <<FrFrom(threshold), IF is_under_threshold THEN FrFrom(U64(1)) ELSE FrFrom(U64(0))>>

\* mutant: any proof made for these public inputs is accepted
SnarkVerify_AnyProof(proof, threshold, is_under_threshold) ==
    proof.public_inputs = VerifyPublicInputs(threshold, is_under_threshold)

\* SnarkProver::verify: true exactly for a sound proof of these public inputs
SnarkVerify(proof, threshold, is_under_threshold) ==
    /\ proof.sound
    /\ proof.public_inputs = VerifyPublicInputs(threshold, is_under_threshold)

-----------------------------------------------------------------------------
(* The verifiers: src/bin/verifier.rs and src/bin/snark_verifier.rs        *)

\* fs::read("receipt.bin")? and bincode::deserialize(&receipt_bytes)?
LoadReceipt ==
    /\ prog \in {"verifier", "snark_verifier"} /\ pc = "load"
    /\ IF receipt_file = Missing
       THEN Fail("read_receipt") /\ UNCHANGED receipt
       ELSE IF receipt_file = Garbage
       THEN Fail("deserialize") /\ UNCHANGED receipt
       ELSE /\ receipt' = receipt_file
            /\ pc' = "verify"
            /\ UNCHANGED outVars
    /\ UNCHANGED <<prog, harnessVars, csv_file, receipt_file, output, guestVars, agentBVars, snarkVars>>

\* receipt.verify(CSV_PROCESSOR_ID)?
VerifyReceipt ==
    /\ prog \in {"verifier", "snark_verifier"} /\ pc = "verify"
    /\ IF ReceiptVerify(receipt, CSV_PROCESSOR_ID)
       THEN pc' = "decode" /\ UNCHANGED outVars
       ELSE Fail("receipt_verify")
    /\ UNCHANGED <<prog, harnessVars, csv_file, receipt_file, receipt, output, guestVars,
                   agentBVars, snarkVars>>

\* let output: CsvProcessingOutput = receipt.journal.decode()?
DecodeJournal ==
    /\ prog \in {"verifier", "snark_verifier"} /\ pc = "decode"
    /\ IF JournalDecodes(receipt)
       THEN /\ output' = receipt.journal
            /\ pc' = "parse_sum"
            /\ UNCHANGED outVars
       ELSE /\ Fail("journal_decode")
            /\ UNCHANGED output
    /\ UNCHANGED <<prog, harnessVars, csv_file, receipt_file, receipt, guestVars, agentBVars, snarkVars>>

\* let sum_value: u64 = output.column_a_sum.parse()?
ParseSum ==
    /\ prog \in {"verifier", "snark_verifier"} /\ pc = "parse_sum"
    /\ LET parsed == ParseU64(output.column_a_sum)
       IN  IF parsed.ok
           THEN /\ sum_value' = parsed.val
                /\ pc' = IF prog = "verifier" THEN "validate" ELSE "snark_prove"
                /\ UNCHANGED outVars
           ELSE /\ Fail("sum_parse")
                /\ UNCHANGED sum_value
    /\ UNCHANGED <<prog, harnessVars, csv_file, receipt_file, receipt, output, guestVars,
                   agentBVars, snark_proof, snark_verified, snark_args, cs_satisfied>>

\* let expected_threshold_check = sum_value < THRESHOLD
ExpectedThresholdCheck(sum) == U64Less(sum, U64(THRESHOLD))

\* mutant: the two accepting arms are swapped
VerifierDecision_Swapped(is_under_threshold, expected_threshold_check) ==
    IF is_under_threshold = expected_threshold_check
    THEN IF is_under_threshold THEN "conditional_accept_task" ELSE "accept_task"
    ELSE "reject_task"

\* verifier.rs: the decision made from the flag and the expected check
VerifierDecision(is_under_threshold, expected_threshold_check) ==
    IF is_under_threshold = expected_threshold_check
    THEN IF is_under_threshold THEN "accept_task" ELSE "conditional_accept_task"
    ELSE "reject_task"

\* verifier.rs: Agent B's business logic validation
BusinessValidation ==
    /\ prog = "verifier" /\ pc = "validate"
    /\ decisions' = Append(decisions,
           VerifierDecision(output.is_under_threshold, ExpectedThresholdCheck(sum_value)))
    /\ pc' = "return_ok"
    /\ UNCHANGED <<prog, harnessVars, csv_file, receipt_file, receipt, output, guestVars,
                   agentBVars, snarkVars, error, exit_code>>

\* snark_verifier.rs: SnarkProver::setup(&mut rng)? and snark_prover.prove(..)?
SnarkSetupAndProve ==
    /\ prog = "snark_verifier" /\ pc = "snark_prove"
    /\ \E p \in SnarkProve(sum_value, U64(THRESHOLD), output.is_under_threshold) :
         IF p = ProvingError
         THEN Fail("snark_prove") /\ UNCHANGED snark_proof
         ELSE /\ snark_proof' = p
              /\ pc' = "snark_verify"
              /\ UNCHANGED outVars
    /\ UNCHANGED <<prog, harnessVars, csv_file, receipt_file, receipt, output, guestVars,
                   agentBVars, sum_value, snark_verified, snark_args, cs_satisfied>>

\* snark_verifier.rs: let snark_verified = snark_prover.verify(..)?
SnarkVerifyProof ==
    /\ prog = "snark_verifier" /\ pc = "snark_verify"
    /\ snark_verified' = SnarkVerify(snark_proof, U64(THRESHOLD), output.is_under_threshold)
    /\ pc' = "snark_decide"
    /\ UNCHANGED <<prog, harnessVars, csv_file, receipt_file, receipt, output, guestVars,
                   agentBVars, sum_value, snark_proof, snark_args, cs_satisfied,
                   outVars>>

\* mutant: the result of the proof check is not looked at
SnarkDecision_Unchecked(verified, is_under_threshold) ==
    IF is_under_threshold
    THEN "accept_with_dual_proofs"
    ELSE "conditional_accept_with_dual_proofs"

\* snark_verifier.rs: the decision made from the proof check and the flag
SnarkDecision(verified, is_under_threshold) ==
    IF verified
    THEN IF is_under_threshold
         THEN "accept_with_dual_proofs"
         ELSE "conditional_accept_with_dual_proofs"
    ELSE "reject_due_to_snark_failure"

SnarkDecide ==
    /\ prog = "snark_verifier" /\ pc = "snark_decide"
    /\ decisions' = Append(decisions, SnarkDecision(snark_verified, output.is_under_threshold))
    /\ pc' = "return_ok"
    /\ UNCHANGED <<prog, harnessVars, csv_file, receipt_file, receipt, output, guestVars,
                   agentBVars, snarkVars, error, exit_code>>

\* both verifiers: Ok(()) at the end of main, whatever was decided
ReturnOk ==
    /\ prog \in {"verifier", "snark_verifier"} /\ pc = "return_ok"
    /\ exit_code' = 0
    /\ pc' = "exit"
    /\ UNCHANGED <<prog, harnessVars, csv_file, receipt_file, receipt, output, guestVars,
                   agentBVars, snarkVars, decisions, error>>

-----------------------------------------------------------------------------
(* The SnarkProver tests: snark_circuit.rs and snark_prover.rs, mod tests  *)

\* circuit.generate_constraints(cs.clone()).unwrap(); cs.is_satisfied()
TestGenerateConstraints ==
    /\ prog = "snark_test" /\ pc = "generate_constraints"
    /\ cs_satisfied' = CircuitSatisfied(snark_args.sum, snark_args.threshold,
                                        snark_args.is_under_threshold)
    /\ pc' = "test_prove"
    /\ UNCHANGED <<prog, harnessVars, csv_file, receipt_file, receipt, output, guestVars,
                   agentBVars, sum_value, snark_proof, snark_verified, snark_args,
                   outVars>>

\* SnarkProver::setup(&mut rng).unwrap() and
\* prover.prove(&mut rng, sum, threshold, is_under).unwrap()
TestProve ==
    /\ prog = "snark_test" /\ pc = "test_prove"
    /\ \E p \in SnarkProve(snark_args.sum, snark_args.threshold,
                            snark_args.is_under_threshold) :
         IF p = ProvingError
         THEN /\ error' = "snark_prove" /\ exit_code' = 101 /\ pc' = "exit"
              /\ UNCHANGED <<snark_proof, decisions>>
         ELSE /\ snark_proof' = p
              /\ pc' = "test_verify"
              /\ UNCHANGED outVars
    /\ UNCHANGED <<prog, harnessVars, csv_file, receipt_file, receipt, output, guestVars,
                   agentBVars, sum_value, snark_verified, snark_args, cs_satisfied>>

\* let verified = prover.verify(&proof, threshold, is_under).unwrap()
TestVerify ==
    /\ prog = "snark_test" /\ pc = "test_verify"
    /\ snark_verified' = SnarkVerify(snark_proof, snark_args.threshold,
                                     snark_args.is_under_threshold)
    /\ pc' = "test_assert"
    /\ UNCHANGED <<prog, harnessVars, csv_file, receipt_file, receipt, output, guestVars,
                   agentBVars, sum_value, snark_proof, snark_args, cs_satisfied,
                   outVars>>

\* assert!(verified)
TestAssert ==
    /\ prog = "snark_test" /\ pc = "test_assert"
    /\ IF snark_verified
       THEN exit_code' = 0 /\ UNCHANGED error
       ELSE exit_code' = 101 /\ error' = "assert_verified"
    /\ pc' = "exit"
    /\ UNCHANGED <<prog, harnessVars, csv_file, receipt_file, receipt, output, guestVars,
                   agentBVars, snarkVars, decisions>>

-----------------------------------------------------------------------------
(* The producer: src/bin/host.rs                                           *)

\* the sample data, its digest, the CsvProcessingInput and the executor
\* environment
ProducerBuildInput ==
    /\ prog = "producer" /\ pc = "build_input"
    /\ input' = [csv_hash |-> Sha256(SampleCsv), csv_data |-> SampleCsv]
    /\ pc' = "producer_prove"
    /\ UNCHANGED <<prog, harnessVars, csv_file, receipt_file, receipt, output, gpc, lines, idx,
                   column_a_sum, column_a_values, entry_count, journal,
                   agentBVars, snarkVars, outVars>>

\* the journal of the CSV_PROCESSOR guest: the commitment, the decimal text
\* of the sum of the (trimmed) first fields of the data lines, and the flag
\* sum < THRESHOLD
CsvProcessorJournal(inp) ==
    LET sum == SumOfColumnA(Lines(inp.csv_data))
    IN  [csv_hash |-> inp.csv_hash,
         column_a_sum |-> U64ToString(sum),
         is_under_threshold |-> U64Less(sum, U64(THRESHOLD))]

\* how a run of the CSV_PROCESSOR guest ends: it aborts on a commitment
\* that is not the digest of the data, else it commits its journal
CsvProcessorEnd(inp) ==
    IF Sha256(inp.csv_data) = inp.csv_hash THEN "committed" ELSE "panicked"

\* let receipt = prover.prove(env, CSV_PROCESSOR_ELF)?
ProducerProve ==
    /\ prog = "producer" /\ pc = "producer_prove"
    /\ \E prover_ok \in BOOLEAN :
         LET result == ProveResult(CSV_PROCESSOR_ID, CsvProcessorEnd(input),
                                   CsvProcessorJournal(input), prover_ok)
         IN  IF result # ProverError
             THEN /\ receipt' = result
                  /\ pc' = "producer_decode"
                  /\ UNCHANGED outVars
             ELSE /\ Fail("prover_prove")
                  /\ UNCHANGED receipt
    /\ UNCHANGED <<prog, harnessVars, csv_file, receipt_file, output, guestVars, agentBVars, snarkVars>>

\* let output: CsvProcessingOutput = receipt.journal.decode()?
ProducerDecode ==
    /\ prog = "producer" /\ pc = "producer_decode"
    /\ IF JournalDecodes(receipt)
       THEN /\ output' = receipt.journal
            /\ pc' = "write_receipt"
            /\ UNCHANGED outVars
       ELSE /\ Fail("journal_decode")
            /\ UNCHANGED output
    /\ UNCHANGED <<prog, harnessVars, csv_file, receipt_file, receipt, guestVars, agentBVars, snarkVars>>

\* bincode::serialize(&receipt)? and fs::write("receipt.bin", receipt_bytes)?
ProducerWriteReceipt ==
    /\ prog = "producer" /\ pc = "write_receipt"
    /\ \E write_ok \in BOOLEAN :
         IF write_ok
         THEN /\ receipt_file' = receipt
              /\ pc' = "producer_verify"
              /\ UNCHANGED outVars
         ELSE /\ Fail("write_receipt")
              /\ UNCHANGED receipt_file
    /\ UNCHANGED <<prog, harnessVars, csv_file, receipt, output, guestVars, agentBVars, snarkVars>>

\* receipt.verify(CSV_PROCESSOR_ID)? and Ok(())
ProducerVerify ==
    /\ prog = "producer" /\ pc = "producer_verify"
    /\ IF ReceiptVerify(receipt, CSV_PROCESSOR_ID)
       THEN /\ exit_code' = 0 /\ pc' = "exit"
            /\ UNCHANGED <<decisions, error>>
       ELSE Fail("receipt_verify")
    /\ UNCHANGED <<prog, harnessVars, csv_file, receipt_file, receipt, output, guestVars,
                   agentBVars, snarkVars>>

-----------------------------------------------------------------------------
(* calculate_column_sum of src/bin/ai_demo_simple.rs                       *)

I64ParseErr == [ok |-> FALSE, negative |-> FALSE, magnitude |-> U64Zero]

\* 2^63, the magnitude of i64::MIN
I64MinMagnitude == <<0, 0, 0, LimbBase \div 2>>

\* "…".parse::<i64>(): an optional sign and digits; the value lies in
\* -2^63 .. 2^63 - 1.  The value is kept as its sign and magnitude.
ParseI64(s) ==
    IF s = <<>> THEN I64ParseErr
    ELSE IF Len(s) = 1 /\ s[1] \in {"+", "-"} THEN I64ParseErr
    ELSE LET minus == s[1] = "-"
             parsed == ParseDigits(IF s[1] \in {"+", "-"} THEN Tail(s) ELSE s, U64Zero)
         IN  IF ~parsed.ok THEN I64ParseErr
             ELSE IF minus /\ U64LessEq(parsed.val, I64MinMagnitude)
             THEN [ok |-> TRUE, negative |-> parsed.val # U64Zero, magnitude |-> parsed.val]
             ELSE IF ~minus /\ U64Less(parsed.val, I64MinMagnitude)
             THEN [ok |-> TRUE, negative |-> FALSE, magnitude |-> parsed.val]
             ELSE I64ParseErr

\* mutant: a negative value adds its magnitude
I64Contribution_Magnitude(value) == value.magnitude

\* if value > 0 { sum += value as u64 }: what an i64 value adds to the sum
I64Contribution(value) ==
    IF ~value.negative /\ value.magnitude # U64Zero THEN value.magnitude ELSE U64Zero

\* the loop of calculate_column_sum over the lines k.. with the sum so far
RECURSIVE CalculateColumnSumFrom(_, _, _)
CalculateColumnSumFrom(ls, k, acc) ==
    IF k > Len(ls) THEN acc
    ELSE LET field == Trim(FirstField(ls[k]))
             as_u64 == ParseU64(field)
             as_i64 == ParseI64(field)
             next == IF as_u64.ok THEN U64AddCarry(acc, as_u64.val).val
                     ELSE IF as_i64.ok
                     THEN U64AddCarry(acc, I64Contribution(as_i64)).val
                     ELSE acc
         IN  CalculateColumnSumFrom(ls, k + 1, next)

\* calculate_column_sum(csv): the lines after the first one
CalculateColumnSum(text) == CalculateColumnSumFrom(Lines(text), 2, U64Zero)

\* let sum = calculate_column_sum(&csv)
DemoCalculateColumnSum ==
    /\ prog = "demo" /\ pc = "calculate_column_sum"
    /\ demo_sum' = CalculateColumnSum(csv)
    /\ pc' = "processed"
    /\ UNCHANGED <<prog, csv, invariantVars, interactiveVars, csv_file, receipt_file,
                   receipt, output, guestVars, agentBVars, snarkVars, outVars>>

-----------------------------------------------------------------------------
(* The simulated invariant proof: host/src/snark_invariant.rs              *)

\* u64::to_le_bytes: eight bytes, least significant first
ToLeBytes(a) ==
    <<a[1] % 256, a[1] \div 256, a[2] % 256, a[2] \div 256,
      a[3] % 256, a[3] \div 256, a[4] % 256, a[4] \div 256>>

\* b"business_invariant_circuit"
CircuitTag ==
    <<98, 117, 115, 105, 110, 101, 115, 115, 95, 105, 110, 118, 97, 114, 105,
      97, 110, 116, 95, 99, 105, 114, 99, 117, 105, 116>>

\* mutant: the threshold is left out of the hash
ProofHash_NoThreshold(threshold, actual_sum, csv_hash, is_valid) ==
    Sha256(CircuitTag \o ToLeBytes(actual_sum) \o csv_hash
           \o <<IF is_valid THEN 1 ELSE 0>>)

\* the SHA-256 of the tag, threshold.to_le_bytes(), actual_sum.to_le_bytes(),
\* csv_hash and [is_valid as u8]
ProofHash(threshold, actual_sum, csv_hash, is_valid) ==
    Sha256(CircuitTag \o ToLeBytes(threshold) \o ToLeBytes(actual_sum) \o csv_hash
           \o <<IF is_valid THEN 1 ELSE 0>>)

\* BusinessInvariantCircuit::generate_proof
GenerateProof(c) ==
    LET is_valid == U64LessEq(c.actual_sum, c.threshold)
    IN  [circuit    |-> c,
         proof_hash |-> ProofHash(c.threshold, c.actual_sum, c.csv_hash, is_valid),
         is_valid   |-> is_valid]

\* BusinessInvariantProof::verify
BusinessInvariantProofVerify(p) ==
    LET constraint_satisfied == U64LessEq(p.circuit.actual_sum, p.circuit.threshold)
        expected_hash == ProofHash(p.circuit.threshold, p.circuit.actual_sum,
                                   p.circuit.csv_hash, p.is_valid)
    IN  expected_hash = p.proof_hash /\ constraint_satisfied /\ p.is_valid

\* the proof p with one pub field set to another value, proof_hash as it was
WithField(p, field, value) ==
    IF field = "is_valid" THEN [p EXCEPT !.is_valid = value]
    ELSE [p EXCEPT !.circuit = [p.circuit EXCEPT ![field] = value]]

FieldValues(field) ==
    IF field = "is_valid" THEN BOOLEAN
    ELSE IF field = "csv_hash" THEN CsvHashes
    ELSE InvariantValues

FieldOf(p, field) == IF field = "is_valid" THEN p.is_valid ELSE p.circuit[field]

\* let proof = circuit.generate_proof()
InvariantGenerateProof ==
    /\ prog = "invariant_test" /\ pc = "generate_proof"
    /\ invariant_proof' = GenerateProof(circuit)
    /\ pc' = "proof_held"
    /\ UNCHANGED <<prog, circuit, tampered, proof_verified, demoVars, interactiveVars,
                   csv_file, receipt_file, receipt, output, guestVars, agentBVars,
                   snarkVars, outVars>>

\* whoever holds the proof writes one of its pub fields
InvariantTamper ==
    /\ prog = "invariant_test" /\ pc = "proof_held" /\ tampered = "none"
    /\ \E field \in ProofFields :
         \E value \in FieldValues(field) \ {FieldOf(invariant_proof, field)} :
            /\ invariant_proof' = WithField(invariant_proof, field, value)
            /\ tampered' = field
    /\ UNCHANGED <<prog, pc, circuit, proof_verified, demoVars, interactiveVars,
                   csv_file, receipt_file, receipt, output, guestVars, agentBVars,
                   snarkVars, outVars>>

\* proof.verify()
InvariantVerify ==
    /\ prog = "invariant_test" /\ pc = "proof_held"
    /\ proof_verified' = BusinessInvariantProofVerify(invariant_proof)
    /\ pc' = "proof_checked"
    /\ UNCHANGED <<prog, circuit, invariant_proof, tampered, demoVars, interactiveVars,
                   csv_file, receipt_file, receipt, output, guestVars, agentBVars,
                   snarkVars, outVars>>

-----------------------------------------------------------------------------
(* The command loop of src/bin/ai_interactive.rs                           *)

\* input.splitn(2, ' '): parts[0], and parts[1] or "" when there is no space
SplitCommand(text) ==
    LET command == UpTo(text, " ")
    IN  [command |-> command,
         args    |-> IF Len(command) = Len(text) THEN <<>>
                     ELSE SubSeq(text, Len(command) + 2, Len(text))]

\* mutant: a line whose first word is quit leaves the loop
IsQuit_FirstWord(text) == SplitCommand(text).command = QuitText

\* input == "quit"
IsQuit(text) == text = QuitText

\* one pass of the loop body on the trimmed line: how it ends
Dispatch(text, call_ok) ==
    IF text = <<>> THEN "empty"
    ELSE IF IsQuit(text) THEN "quit"
    ELSE IF SplitCommand(text).command \in {GenText, AnalyzeText, PlanText}
    THEN IF SplitCommand(text).args = <<>> THEN "missing_argument"
         ELSE IF call_ok THEN "agent_ok" ELSE "agent_error"
    ELSE "unknown_command"

\* print!("> "); io::stdout().flush()?
InteractivePrompt ==
    /\ prog = "interactive" /\ pc = "prompt"
    /\ \E flush_ok \in BOOLEAN :
         IF flush_ok
         THEN pc' = "read_line" /\ UNCHANGED outVars
         ELSE Fail("flush")
    /\ UNCHANGED <<prog, interactiveVars, demoVars, invariantVars, csv_file,
                   receipt_file, receipt, output, guestVars, agentBVars, snarkVars>>

\* io::stdin().read_line(&mut input)?: the next line, or nothing at end of
\* input (Ok(0))
InteractiveReadLine ==
    /\ prog = "interactive" /\ pc = "read_line"
    /\ \E read_ok \in BOOLEAN :
         IF read_ok
         THEN /\ IF stdin = <<>>
                 THEN input_buf' = <<>> /\ UNCHANGED stdin
                 ELSE input_buf' = Head(stdin) /\ stdin' = Tail(stdin)
              /\ pc' = "dispatch"
              /\ UNCHANGED outVars
         ELSE Fail("read_line") /\ UNCHANGED <<stdin, input_buf>>
    /\ UNCHANGED <<prog, last_outcome, demoVars, invariantVars, csv_file,
                   receipt_file, receipt, output, guestVars, agentBVars, snarkVars>>

\* the rest of the loop body: trim, the empty and quit checks, the match on
\* the command with its agent call; after break, Ok(())
InteractiveDispatch ==
    /\ prog = "interactive" /\ pc = "dispatch"
    /\ \E call_ok \in BOOLEAN :
         last_outcome' = Dispatch(Trim(input_buf), call_ok)
    /\ IF last_outcome' = "quit"
       THEN pc' = "exit" /\ exit_code' = 0
       ELSE pc' = "prompt" /\ UNCHANGED exit_code
    /\ UNCHANGED <<prog, stdin, input_buf, demoVars, invariantVars, csv_file,
                   receipt_file, receipt, output, guestVars, agentBVars, snarkVars,
                   decisions, error>>

-----------------------------------------------------------------------------
(* Specification                                                           *)

Next ==
    \/ GuestCheckHash
    \/ GuestNextLine
    \/ GuestCommit
    \/ AgentAReadCsv
    \/ ProverReturn
    \/ AgentBVerify
    \/ AgentBDecode
    \/ AgentBInvariant
    \/ HostMainCheck
    \/ LoadReceipt
    \/ VerifyReceipt
    \/ DecodeJournal
    \/ ParseSum
    \/ BusinessValidation
    \/ SnarkSetupAndProve
    \/ SnarkVerifyProof
    \/ SnarkDecide
    \/ ReturnOk
    \/ TestGenerateConstraints
    \/ TestProve
    \/ TestVerify
    \/ TestAssert
    \/ ProducerBuildInput
    \/ ProducerProve
    \/ ProducerDecode
    \/ ProducerWriteReceipt
    \/ ProducerVerify
    \/ DemoCalculateColumnSum
    \/ InvariantGenerateProof
    \/ InvariantTamper
    \/ InvariantVerify
    \/ InteractivePrompt
    \/ InteractiveReadLine
    \/ InteractiveDispatch

Spec == Init /\ [][Next]_vars

-----------------------------------------------------------------------------
(* Vocabulary of the properties                                            *)

Terminated == pc = "exit"

VerifierProgs == {"verifier", "snark_verifier"}
HostProgs == {"host", "agent_b"}

\* the decisions of the specification, by the functions that print them
AcceptDecisions == {"accept_task", "accept_with_dual_proofs", "SUCCESS"}
ConditionalAcceptDecisions ==
    {"conditional_accept_task", "conditional_accept_with_dual_proofs"}
RejectDecisions == {"reject_task", "reject_due_to_snark_failure", "FAILURE"}

Emitted(kinds) == \E k \in DOMAIN decisions : decisions[k] \in kinds

\* the image identifier the running program pins
PinnedImageId ==
    IF prog \in VerifierProgs \cup {"producer"}
    THEN CSV_PROCESSOR_ID
    ELSE GUEST_CODE_FOR_ZK_PROOF_ID

\* the receipt in hand is a valid proof for the pinned image
ReceiptGenuine ==
    /\ receipt # NoReceipt
    /\ receipt.seal_ok
    /\ receipt.image_id = PinnedImageId

\* the supplied commitment is the digest of the supplied dataset
CommitmentIsDigest == input.csv_hash = Sha256(input.csv_data)

\* the first field as it is, or trimmed
Prepared(field, trimmed) == IF trimmed THEN Trim(field) ELSE field

\* the sum of the values of lines k.. of ls whose first field (trimmed or
\* not) parses as a u64
RECURSIVE SumFrom(_, _, _)
SumFrom(ls, k, trimmed) ==
    IF k > Len(ls) THEN U64Zero
    ELSE LET parsed == ParseU64(Prepared(FirstField(ls[k]), trimmed))
             rest == SumFrom(ls, k + 1, trimmed)
         IN  IF parsed.ok THEN U64AddCarry(parsed.val, rest).val ELSE rest

\* the number of lines k.. of ls whose first field parses as a u64
CountFrom(ls, k, trimmed) ==
    Cardinality({j \in k..Len(ls) : ParseU64(Prepared(FirstField(ls[j]), trimmed)).ok})

\* the scenario "header, 500, abc, 499"
ScenarioS4 ==
    <<"a", "b", "c", ",", "x", LF, "5", "0", "0", ",", "x", LF,
      "a", "b", "c", ",", "x", LF, "4", "9", "9">>

-----------------------------------------------------------------------------
(* Properties                                                              *)

\* C1: a receipt that is not a valid proof for the pinned image identifier
\* (a bad seal, or a good seal for another image) never leads to ACCEPT,
\* CONDITIONAL_ACCEPT or SUCCESS; the run ends with a non-zero exit code and
\* the failed execution check is what is reported: the verifiers end with the
\* error of receipt.verify, AgentB records verification_passed = false and
\* main ends in FAILURE (or with the decode error of the same receipt).
C1_ImagePinning ==
    (receipt # NoReceipt /\ ~ReceiptGenuine) =>
        /\ ~Emitted(AcceptDecisions \cup ConditionalAcceptDecisions)
        /\ Terminated =>
             /\ exit_code # 0
             /\ IF prog \in VerifierProgs
                THEN error = "receipt_verify" /\ decisions = <<>>
                ELSE /\ ~verification_passed
                     /\ \/ decisions = <<"FAILURE">> /\ error = "none"
                        \/ decisions = <<>> /\ error = "journal_decode"

\* C1 witness: a receipt with a good seal for another image was rejected
C1_Witness ==
    /\ Terminated /\ prog = "verifier"
    /\ receipt # NoReceipt /\ receipt.seal_ok /\ receipt.image_id = OtherImageId
    /\ error = "receipt_verify" /\ exit_code = 1

\* the journal was decoded and its sum parsed by a verifier
SumParsed ==
    /\ prog \in VerifierProgs
    /\ output # NoOutput
    /\ pc \notin {"parse_sum"}
    /\ error # "sum_parse"

FlagInconsistent ==
    output.is_under_threshold # U64Less(sum_value, U64(THRESHOLD))

\* C2: once the receipt has verified and the journal is decoded, a predicate
\* flag that differs from (sum < threshold) makes the verifier reject for
\* internal inconsistency (reject_task) and reach no accepting branch, in
\* verifier.rs and in snark_verifier.rs alike.
C2_InconsistentFlagRejected ==
    (SumParsed /\ FlagInconsistent) =>
        /\ ~Emitted(AcceptDecisions \cup ConditionalAcceptDecisions)
        /\ Terminated => decisions = <<"reject_task">>

\* SnarkProver::verify has returned
SnarkVerifyReturned ==
    prog = "snark_verifier" /\ snark_proof # NoProof /\ pc # "snark_verify"

\* C3: when SnarkProver::verify with public inputs (THRESHOLD, flag) returns
\* false, the only decision of the run is reject_due_to_snark_failure
\* (predicate invalid); no accepting decision is printed.
C3_PredicateInvalidRejects ==
    (SnarkVerifyReturned /\ ~snark_verified) =>
        /\ ~Emitted(AcceptDecisions \cup ConditionalAcceptDecisions)
        /\ pc \in {"return_ok", "exit"} => decisions = <<"reject_due_to_snark_failure">>

\* C3 witness: a run that ended after verify returned false
C3_Witness ==
    /\ Terminated /\ SnarkVerifyReturned /\ ~snark_verified
    /\ decisions = <<"reject_due_to_snark_failure">>

\* every gate of the running verifier passes: receipt.bin holds a receipt
\* that is a valid proof for the pinned image, the journal decodes, its sum
\* parses, and (verifier.rs) the flag is consistent, (snark_verifier.rs) the
\* predicate proof was made and verified
GatesPass ==
    /\ prog \in VerifierProgs
    /\ receipt_file \notin {Missing, Garbage}
    /\ receipt_file.seal_ok /\ receipt_file.image_id = CSV_PROCESSOR_ID
    /\ receipt_file.journal # Malformed
    /\ ParseU64(receipt_file.journal.column_a_sum).ok
    /\ IF prog = "verifier"
       THEN receipt_file.journal.is_under_threshold
              = U64Less(ParseU64(receipt_file.journal.column_a_sum).val, U64(THRESHOLD))
       ELSE error = "none" /\ snark_verified

\* C4: a run in which every gate passes prints exactly one decision: the
\* accepting one when the journal's flag is true, the conditional one when it
\* is false; no run prints more than one decision.
C4_OneDecision ==
    /\ Len(decisions) <= 1
    /\ (Terminated /\ GatesPass) =>
         /\ Len(decisions) = 1
         /\ IF receipt_file.journal.is_under_threshold
            THEN decisions[1] \in AcceptDecisions
            ELSE decisions[1] \in ConditionalAcceptDecisions

\* C4 witness: a dual-proof run that ended in the conditional decision
C4_Witness ==
    /\ Terminated /\ GatesPass /\ prog = "snark_verifier"
    /\ ~receipt_file.journal.is_under_threshold
    /\ decisions = <<"conditional_accept_with_dual_proofs">>

\* the decoded journal's sum equals the threshold
JournalSumIsThreshold ==
    /\ output # NoOutput
    /\ IF prog \in VerifierProgs
       THEN SumParsed /\ sum_value = U64(THRESHOLD)
       ELSE output.column_a_sum = U64(THRESHOLD)

\* C5: the predicate is strict in every path: with a verified journal whose
\* sum equals the threshold no path reports the predicate as satisfied, none
\* prints ACCEPT or SUCCESS.
C5_StrictLessThan ==
    (ReceiptGenuine /\ JournalSumIsThreshold) =>
        /\ ~business_invariant_passed
        /\ ~Emitted(AcceptDecisions)

\* C6: a verifying program ends with exit code 0 when its decision is ACCEPT
\* or CONDITIONAL_ACCEPT, and with a non-zero exit code when it decided to
\* reject or ended on an error.
C6_ExitCodes ==
    (Terminated /\ prog \in VerifierProgs \cup HostProgs) =>
        /\ Emitted(AcceptDecisions \cup ConditionalAcceptDecisions) => exit_code = 0
        /\ (Emitted(RejectDecisions) \/ error # "none") => exit_code # 0

\* C7: the guest run completes and commits a journal exactly when the
\* supplied commitment is the digest of the supplied dataset; otherwise it
\* aborts before any line is parsed and commits nothing, and the prover
\* returns an error and no receipt.
C7_CommitmentBinding ==
    (input # NoInput) =>
        /\ gpc \in {"committed", "panicked"} => (gpc = "committed" <=> CommitmentIsDigest)
        /\ gpc = "committed" <=> journal # NoJournal
        /\ gpc = "panicked" =>
             /\ lines = <<>> /\ idx = 0
             /\ column_a_sum = U64Zero /\ column_a_values = <<>> /\ entry_count = 0
        /\ ~CommitmentIsDigest =>
             /\ gpc \in {"start", "panicked"}
             /\ receipt = NoReceipt
             /\ Terminated => error = "prover_prove" /\ exit_code = 1

\* C7 witness: a run with a stale commitment ended in the prover's error
C7_Witness ==
    /\ input # NoInput /\ ~CommitmentIsDigest
    /\ Terminated /\ gpc = "panicked" /\ error = "prover_prove" /\ receipt = NoReceipt

\* C8: the committed sum is the sum of the first fields of the data lines
\* (all lines after line 0) that parse as u64; a data line whose first field
\* does not parse adds nothing and the loop goes on to the last line; header,
\* 500, abc, 499 gives 999.
C8_SumOfParsedFields ==
    gpc = "committed" =>
        /\ idx = Len(Lines(input.csv_data))
        /\ journal.column_a_sum = SumFrom(Lines(input.csv_data), 2, FALSE)
        /\ input.csv_data = ScenarioS4 => journal.column_a_sum = U64(999)

\* C8 witness: the scenario with the skipped middle row was committed
C8_Witness ==
    /\ gpc = "committed" /\ input.csv_data = ScenarioS4
    /\ journal.column_a_sum = U64(999) /\ journal.entry_count = 2

\* C9: the guest trims ASCII whitespace around the first field before it
\* parses it: the committed sum and entry count are those of the trimmed
\* first fields of the data lines.
C9_FirstFieldTrimmed ==
    gpc = "committed" =>
        /\ journal.column_a_sum = SumFrom(Lines(input.csv_data), 2, TRUE)
        /\ journal.entry_count = CountFrom(Lines(input.csv_data), 2, TRUE)

\* C10: line 0 is discarded whatever it holds: after the first iteration
\* nothing has been added or counted, the committed entry count is the
\* number of parsing data lines, and a dataset of at most one line commits
\* sum 0 and count 0.
C10_HeaderDiscarded ==
    /\ (gpc = "loop" /\ idx <= 1) =>
         column_a_sum = U64Zero /\ entry_count = 0 /\ column_a_values = <<>>
    /\ gpc = "committed" =>
         /\ journal.entry_count = CountFrom(Lines(input.csv_data), 2, FALSE)
         /\ Len(Lines(input.csv_data)) <= 1 =>
              journal.column_a_sum = U64Zero /\ journal.entry_count = 0

\* C10 witness: a one-line dataset whose only line is a number committed 0
C10_Witness ==
    /\ gpc = "committed"
    /\ Len(lines) = 1 /\ ParseU64(FirstField(lines[1])).ok
    /\ journal.column_a_sum = U64Zero /\ journal.entry_count = 0

\* the exact (unbounded) total of the parsing first fields of lines k.. of ls,
\* as its residue modulo 2^64 and the number of times 2^64 was exceeded
RECURSIVE WideSumFrom(_, _)
WideSumFrom(ls, k) ==
    IF k > Len(ls) THEN [val |-> U64Zero, wraps |-> 0]
    ELSE LET parsed == ParseU64(FirstField(ls[k]))
             rest == WideSumFrom(ls, k + 1)
             step == U64AddCarry(parsed.val, rest.val)
         IN  IF parsed.ok
             THEN [val |-> step.val, wraps |-> rest.wraps + step.carry]
             ELSE rest

\* the parsed values of the supplied dataset total 2^64 or more
TotalOverflows == WideSumFrom(Lines(input.csv_data), 2).wraps > 0

\* C11: the sum is accumulated with wrapping u64 addition: a run whose
\* commitment matches never aborts, also when the parsed values total 2^64 or
\* more, and the committed sum is the exact total modulo 2^64 (not u64::MAX).
C11_WrappingSum ==
    (prog \in {"guest", "host"} /\ input # NoInput /\ CommitmentIsDigest) =>
        /\ gpc # "panicked"
        /\ (Terminated /\ error = "none") => gpc = "committed"
        /\ gpc = "committed" =>
             journal.column_a_sum = WideSumFrom(Lines(input.csv_data), 2).val

\* C11 witness: header, u64::MAX, 500 was committed with the sum 499
C11_Witness ==
    /\ gpc = "committed" /\ TotalOverflows
    /\ input.csv_data = <<"a", "b", "c", ",", "x", LF>> \o U64MaxText
                           \o <<LF, "5", "0", "0", ",", "x", LF>>
    /\ journal.column_a_sum = U64(499) /\ journal.entry_count = 2

\* C12: every journal the guest commits carries a predicate flag, and the
\* flag equals (sum < 1000), the comparison with the guest's THRESHOLD.
C12_PredicateFlagCommitted ==
    gpc = "committed" =>
        /\ "is_under_threshold" \in DOMAIN journal
        /\ journal.is_under_threshold = U64Less(journal.column_a_sum, U64(THRESHOLD))

\* the constraint system of the test case has been synthesised and checked
ConstraintsChecked == prog = "snark_test" /\ pc # "generate_constraints"

\* b = (s < t) for the test case, by the unsigned comparison of the u64 values
FlagIsComparison ==
    snark_args.is_under_threshold = U64Less(snark_args.sum, snark_args.threshold)

\* C13: for sums and thresholds below 2^64 and either flag, the constraints
\* of ThresholdCheckCircuit are satisfied exactly when the flag equals
\* (sum < threshold) as unsigned integers: sum = threshold needs flag 0,
\* sum = 0 with threshold > 0 needs flag 1, threshold = 0 needs flag 0.
C13_CircuitIsLessThan ==
    ConstraintsChecked =>
        /\ cs_satisfied <=> FlagIsComparison
        /\ (cs_satisfied /\ snark_args.sum = snark_args.threshold)
             => ~snark_args.is_under_threshold
        /\ (cs_satisfied /\ snark_args.sum = U64Zero /\ snark_args.threshold # U64Zero)
             => snark_args.is_under_threshold
        /\ (cs_satisfied /\ snark_args.threshold = U64Zero)
             => ~snark_args.is_under_threshold

\* C13 witness: sum = threshold = u64::MAX is satisfied with flag 0
C13_Witness ==
    /\ ConstraintsChecked /\ cs_satisfied
    /\ snark_args.sum = U64Max /\ snark_args.threshold = U64Max
    /\ ~snark_args.is_under_threshold

\* SnarkProver::prove has returned, in a test or in snark_verifier.rs
ProveReturned ==
    \/ prog = "snark_test" /\ pc \notin {"generate_constraints", "test_prove"}
    \/ prog = "snark_verifier" /\ (pc \in {"snark_verify", "snark_decide", "return_ok"}
                                    \/ error = "snark_prove"
                                    \/ snark_proof # NoProof)

\* the assignment handed to prove does not satisfy the circuit
ProveArgsUnsatisfying ==
    IF prog = "snark_test"
    THEN ~FlagIsComparison
    ELSE output.is_under_threshold # U64Less(sum_value, U64(THRESHOLD))

\* C14: SnarkProver::prove with a flag that differs from (sum < threshold)
\* returns a proving error and no proof object.
C14_ProveRejectsUnsatisfying ==
    (ProveReturned /\ ProveArgsUnsatisfying) =>
        /\ snark_proof = NoProof
        /\ error = "snark_prove"

\* C15: a proof made by prove(sum, threshold, sum < threshold) after setup is
\* accepted by verify with the public inputs (threshold, sum < threshold):
\* prove returns a proof, verify returns true and the test's assertion holds,
\* under the threshold and at or over it.
C15_Completeness ==
    (prog = "snark_test" /\ FlagIsComparison) =>
        /\ error = "none"
        /\ pc \in {"test_verify", "test_assert", "exit"} => snark_proof # NoProof
        /\ pc \in {"test_assert", "exit"} => snark_verified
        /\ Terminated => exit_code = 0

\* C15 witness: the case sum = threshold (flag 0) was proved and verified
C15_Witness ==
    /\ prog = "snark_test" /\ Terminated /\ FlagIsComparison
    /\ snark_args.sum = U64(THRESHOLD) /\ snark_args.threshold = U64(THRESHOLD)
    /\ snark_verified /\ exit_code = 0

\* a verifier run printed ACCEPT or CONDITIONAL_ACCEPT
VerifierAccepted ==
    /\ prog \in VerifierProgs
    /\ Emitted({"accept_task", "accept_with_dual_proofs"} \cup ConditionalAcceptDecisions)

\* C16: a verifier prints ACCEPT or CONDITIONAL_ACCEPT only for a journal
\* whose flag equals (sum < THRESHOLD); in snark_verifier.rs the proof that
\* was checked is a sound proof created for the public inputs (THRESHOLD,
\* flag), with the flag of the journal of the verified receipt, and the same
\* pair went to prove and to verify.
C16_PredicateSoundness ==
    VerifierAccepted =>
        /\ ReceiptGenuine
        /\ output = receipt.journal
        /\ output.is_under_threshold = U64Less(sum_value, U64(THRESHOLD))
        /\ prog = "snark_verifier" =>
             /\ snark_proof # NoProof
             /\ snark_proof.sound
             /\ snark_proof.public_inputs
                  = InstanceAssignment(U64(THRESHOLD), output.is_under_threshold)
             /\ snark_proof.public_inputs
                  = VerifyPublicInputs(U64(THRESHOLD), output.is_under_threshold)
             /\ snark_verified

\* C16 witness: a dual-proof run accepted a journal with sum 999, flag true
C16_Witness ==
    /\ prog = "snark_verifier" /\ Terminated
    /\ decisions = <<"accept_with_dual_proofs">>
    /\ sum_value = U64(THRESHOLD - 1) /\ output.is_under_threshold
    /\ snark_proof # NoProof /\ snark_proof.sound

\* receipt.verify, the first step of verification, has run in
\* snark_verifier.rs and passed
ReceiptVerificationRan ==
    prog = "snark_verifier" /\ ReceiptGenuine /\ pc # "verify"

\* C17: the steps of a pipeline instance are ordered: the commitment is made
\* before the guest runs, the guest has committed before the receipt exists,
\* the receipt exists before the predicate proof is generated, and the
\* predicate proof is generated before any step of verification (receipt
\* verification, journal decoding, predicate verification, decision).
C17_PipelineOrder ==
    /\ gpc # "idle" => input # NoInput
    /\ (prog \in {"guest", "host"} /\ receipt # NoReceipt) => gpc = "committed"
    /\ (prog = "snark_verifier" /\ snark_proof # NoProof) => receipt # NoReceipt
    /\ ReceiptVerificationRan => snark_proof # NoProof

\* the proving call failed: the guest aborted or the prover returned an error
ProvingFailed == gpc = "panicked" \/ error = "prover_prove"

\* C18: a proving call is all-or-nothing: when the guest aborts or the prover
\* fails there is no receipt, nothing was decoded and receipt.bin was not
\* written; a receipt that exists is complete; and receipt.bin, once written,
\* holds exactly the complete receipt that proving returned.
C18_AllOrNothing ==
    /\ ProvingFailed =>
         receipt = NoReceipt /\ output = NoOutput /\ receipt_file = Missing
    /\ (prog \in {"guest", "host", "producer"} /\ receipt # NoReceipt) =>
         receipt.seal_ok /\ JournalDecodes(receipt)
    /\ (prog = "producer" /\ receipt_file # Missing) =>
         /\ receipt # NoReceipt /\ receipt_file = receipt
         /\ pc \in {"producer_verify", "exit"}

\* C18 witness: the producer ended on the prover's error with no receipt.bin
C18_Witness ==
    /\ prog = "producer" /\ Terminated /\ error = "prover_prove"
    /\ receipt = NoReceipt /\ receipt_file = Missing

\* the threshold the caller passed differs from the guest's THRESHOLD
ThresholdMismatch == prog \in HostProgs /\ sum_threshold # U64(THRESHOLD)

C20_JournalCommitment ==
    gpc = "committed" =>
        /\ journal.csv_hash = Sha256(input.csv_data)
        /\ lines = Lines(input.csv_data)
        /\ idx = Len(lines)

\* C20 witness: the host pipeline committed a journal over summed data
C20_Witness ==
    /\ prog = "host" /\ gpc = "committed" /\ journal.entry_count > 0
    /\ journal.csv_hash = Sha256(csv_file.data)

\* receipt.verify has run on the receipt in hand and failed
ReceiptVerificationFailed ==
    /\ prog \in VerifierProgs \cup HostProgs
    /\ receipt # NoReceipt /\ ~ReceiptGenuine
    /\ pc \notin {"verify", "agent_b_verify"}

\* receipt.journal.decode() has run on the receipt in hand and failed
JournalDecodingFailed ==
    /\ prog \in VerifierProgs \cup HostProgs
    /\ receipt # NoReceipt /\ ~JournalDecodes(receipt)
    /\ pc \notin {"verify", "agent_b_verify", "decode", "agent_b_decode"}
    /\ error # "receipt_verify"

\* C21: every verifier step is a hard gate.  After a failed receipt
\* verification the journal is never decoded, the business predicate is never
\* evaluated, no predicate proof is made and nothing but a rejection is
\* decided; after a failed journal decoding no predicate is evaluated and
\* nothing but a rejection is decided.
C21_HardGates ==
    /\ ReceiptVerificationFailed =>
         /\ output = NoOutput
         /\ pc \notin {"agent_b_decode", "agent_b_invariant", "decode", "parse_sum",
                        "validate", "snark_prove", "snark_verify", "snark_decide"}
         /\ ~business_invariant_passed
         /\ snark_proof = NoProof
         /\ ~Emitted(AcceptDecisions \cup ConditionalAcceptDecisions)
    /\ JournalDecodingFailed =>
         /\ output = NoOutput
         /\ ~business_invariant_passed
         /\ snark_proof = NoProof
         /\ ~Emitted(AcceptDecisions \cup ConditionalAcceptDecisions)

\* the first field of the line is a negative integer (after trimming, where
\* the program trims it)
IsNegativeRow(line, trimmed) ==
    LET field == Prepared(FirstField(line), trimmed)
    IN  /\ Len(field) >= 2 /\ field[1] = "-"
        /\ \A j \in 2..Len(field) : field[j] \in Digits

\* the lines without the negative rows that follow line 0
WithoutNegativeRows(ls, trimmed) ==
    IF ls = <<>> THEN <<>>
    ELSE <<Head(ls)>> \o SelectSeq(Tail(ls), LAMBDA l : ~IsNegativeRow(l, trimmed))

HasNegativeRows(ls, trimmed) == WithoutNegativeRows(ls, trimmed) # ls

\* C22: negative integers in the aggregated column never change the sum.
\* calculate_column_sum of the demo returns for a CSV text the sum of the
\* same text without its negative rows (a negative first field adds 0), and
\* the guest commits for a dataset the sum of the same dataset without its
\* negative rows (a negative first field fails the u64 parse and is skipped).
C22_NegativeRowsAddNothing ==
    /\ (prog = "demo" /\ pc = "processed") =>
         /\ demo_sum = SumFrom(WithoutNegativeRows(Lines(csv), TRUE), 2, TRUE)
         /\ demo_sum = CalculateColumnSum(
                     Flatten([i \in DOMAIN WithoutNegativeRows(Lines(csv), TRUE) |->
                                WithoutNegativeRows(Lines(csv), TRUE)[i] \o <<LF>>]))
    /\ gpc = "committed" =>
         journal.column_a_sum
            = SumFrom(WithoutNegativeRows(Lines(input.csv_data), FALSE), 2, FALSE)

\* C22 witness: the demo has summed header, 500, -5 to 500
C22_Witness ==
    /\ prog = "demo" /\ pc = "processed"
    /\ HasNegativeRows(Lines(csv), TRUE)
    /\ csv = <<"a", ",", "b", LF, "5", "0", "0", ",", "x", LF,
               "-", "5", ",", "z", LF>>
    /\ demo_sum = U64(500)

\* C23: for the simulated invariant proof, verify on the proof generate_proof
\* returned is true exactly when actual_sum <= threshold, and verify on a
\* generated proof in which one of threshold, actual_sum, csv_hash or
\* is_valid was changed, proof_hash left as it was, is false.
C23_InvariantProofRoundTrip ==
    (prog = "invariant_test" /\ pc = "proof_checked") =>
        IF tampered = "none"
        THEN /\ invariant_proof.circuit = circuit
             /\ proof_verified = (circuit.actual_sum = circuit.threshold
                                  \/ U64Less(circuit.actual_sum, circuit.threshold))
        ELSE /\ tampered \in ProofFields
             /\ invariant_proof.proof_hash = GenerateProof(circuit).proof_hash
             /\ FieldOf(invariant_proof, tampered) # FieldOf(GenerateProof(circuit), tampered)
             /\ ~proof_verified

\* C23 witness: the threshold of a valid proof for sum 1000 and threshold
\* 1000 was raised to 1001, which still satisfies the constraint, and verify
\* returned false
C23_Witness ==
    /\ prog = "invariant_test" /\ pc = "proof_checked" /\ tampered = "threshold"
    /\ circuit.actual_sum = U64(SumThreshold) /\ circuit.threshold = U64(SumThreshold)
    /\ invariant_proof.circuit.threshold = U64(SumThreshold + 1)
    /\ invariant_proof.is_valid
    /\ ~proof_verified

\* the lines that are the command quit once trimmed
QuitLines == {QuitText \o <<LF>>, <<" ">> \o QuitText \o <<CR, LF>>}

\* the loop body has run on the line in input_buf and the loop is back at the
\* prompt
BackAtPrompt == prog = "interactive" /\ pc = "prompt" /\ last_outcome # "none"

\* C24: the interactive loop leaves only through the command quit or an I/O
\* error of flush or read_line: the run ends either with such an error or
\* with exit code 0 right after a quit line; every other line (empty,
\* unknown command, missing argument, agent call failed or not) brings the
\* loop back to the prompt, and a zero-length read at end of input is handled
\* as an empty line, so exhausted input does not end the loop.
C24_LoopLeavesOnlyThroughQuit ==
    prog = "interactive" =>
        /\ Terminated =>
             \/ error \in {"flush", "read_line"} /\ exit_code = 1
             \/ error = "none" /\ exit_code = 0 /\ input_buf \in QuitLines
        /\ BackAtPrompt =>
             /\ input_buf \notin QuitLines
             /\ last_outcome \in {"empty", "unknown_command", "missing_argument",
                                  "agent_ok", "agent_error"}
             /\ input_buf = <<>> => last_outcome = "empty"
             /\ input_buf = QuitText \o <<" ", "n", "o", "w", LF>> =>
                  last_outcome = "unknown_command"
             /\ input_buf = GenText \o <<LF>> => last_outcome = "missing_argument"

\* C24 witness: input is exhausted, a zero-length read was handled as an
\* empty line and the loop is back at the prompt
C24_Witness ==
    /\ BackAtPrompt /\ stdin = <<>> /\ input_buf = <<>>
    /\ last_outcome = "empty" /\ exit_code = -1

=============================================================================
